---- MODULE Spec2Model ----
(***************************************************************************)
(* A model of src/exploration/explore_swingtradetitanium.py: the extrema   *)
(* detector, the trend tracker and position simulator of                   *)
(* backtest_trendline_strategy, and the parallel grid search of __main__.  *)
(*                                                                         *)
(* Prices are positive integers; money is an exact rational <<num, den>>   *)
(* (den > 0, lowest terms), so that the divisions of the PnL and of the    *)
(* mark-to-market ratio are computed and not assumed.  Bar indices are the *)
(* 0-based indices of the source; At(s, k) reads element k of a sequence.  *)
(* The RANSAC fit is a library call on random samples: its result (slope,  *)
(* intercept) is a nondeterministic choice from FitOutcomes.               *)
(***************************************************************************)
EXTENDS Integers, Sequences, FiniteSets, TLC

\* ---------------------------------------------------------------- bounds
MaxBars == 7
MaxClose == 4
MaxLine == 2
MaxPairBars == 6
MaxPairClose == 3
MaxCombos == 3
MaxFewBars == 5
MaxFewClose == 3
MaxSlideBars == 8
MaxSlideClose == 3
MaxWindow == 5
MaxWindowClose == 3
MaxOrder == 3
MaxProminence == 2

Closes == 1 .. MaxClose

\* ------------------------------------------------------------ arithmetic
Abs(x) == IF x < 0 THEN -x ELSE x

Max(a, b) == IF a >= b THEN a ELSE b

Min(a, b) == IF a <= b THEN a ELSE b

RECURSIVE GCD(_, _)
GCD(a, b) == IF b = 0 THEN a ELSE GCD(b, a % b)

\* the rational n/d (d # 0) in lowest terms with a positive denominator
Rat(n, d) ==
  LET g == GCD(Abs(n), Abs(d))
      s == IF d < 0 THEN -1 ELSE 1
  IN  << (s * n) \div g, (s * d) \div g >>

RInt(k) == << k, 1 >>

RAdd(a, b) == Rat(a[1] * b[2] + b[1] * a[2], a[2] * b[2])

RMul(a, b) == Rat(a[1] * b[1], a[2] * b[2])

RDiv(a, b) == Rat(a[1] * b[2], a[2] * b[1])

RLt(a, b) == a[1] * b[2] < b[1] * a[2]

RLe(a, b) == a[1] * b[2] <= b[1] * a[2]

Zero == RInt(0)

\* element k (0-based, as in the source) of a sequence
At(s, k) == s[k + 1]

\* the elements of a set of integers as an increasing sequence
RECURSIVE SortedSeq(_)
SortedSeq(S) ==
  IF S = {} THEN << >>
  ELSE LET m == CHOOSE x \in S : \A y \in S : x <= y
       IN  << m >> \o SortedSeq(S \ {m})

\* ------------------------------------------------- detect_local_extrema
\* scipy.signal.find_peaks, step 1: the strict local maxima of x; a flat
\* top counts once, at the middle of the plateau; the two ends never count
\* the first index after k, up to the last one, whose value differs from
\* the value at k
RECURSIVE PlateauEnd(_, _, _)
PlateauEnd(x, k, ahead) ==
  IF ahead < Len(x) - 1 /\ At(x, ahead) = At(x, k)
  THEN PlateauEnd(x, k, ahead + 1)
  ELSE ahead

RECURSIVE ScanMaxima(_, _, _)
ScanMaxima(x, k, found) ==
  IF k >= Len(x) - 1 THEN found
  ELSE IF At(x, k - 1) < At(x, k)
  THEN LET ahead == PlateauEnd(x, k, k + 1)
       IN  IF At(x, ahead) < At(x, k)
           THEN ScanMaxima(x, ahead + 1,
                           found \cup { (k + ahead - 1) \div 2 })
           ELSE ScanMaxima(x, k + 1, found)
  ELSE ScanMaxima(x, k + 1, found)

LocalMaxima(x) == ScanMaxima(x, 1, {})

\* find_peaks, step 2 (distance=order): peaks are kept from the highest
\* down (the later one first among equals); a kept peak removes every
\* other peak closer than `distance` samples
RECURSIVE SelectByPeakDistance(_, _, _, _)
SelectByPeakDistance(todo, keep, x, distance) ==
  IF todo = {} THEN keep
  ELSE LET j == CHOOSE a \in todo : \A b \in todo :
                   \/ At(x, a) > At(x, b)
                   \/ (At(x, a) = At(x, b) /\ a >= b)
       IN  SelectByPeakDistance(
             { k \in todo \ {j} : Abs(k - j) >= distance },
             keep \cup {j}, x, distance)

\* the lowest value on the stretch that starts at the peak and runs in
\* direction dir while the values do not exceed the peak
RECURSIVE BaseMin(_, _, _, _, _)
BaseMin(x, peak, k, dir, lowest) ==
  IF k < 0 \/ k > Len(x) - 1 \/ At(x, k) > At(x, peak) THEN lowest
  ELSE BaseMin(x, peak, k + dir, dir, Min(lowest, At(x, k)))

\* find_peaks, step 3: the prominence of a peak
PeakProminence(x, peak) ==
  At(x, peak) - Max(BaseMin(x, peak, peak, -1, At(x, peak)),
                    BaseMin(x, peak, peak, 1, At(x, peak)))

FindPeaks(x, distance, prominence) ==
  LET byDistance == SelectByPeakDistance(LocalMaxima(x), {}, x, distance)
  IN  SortedSeq({ j \in byDistance : PeakProminence(x, j) >= prominence })

\* variant of Negated: the series is not inverted
NotNegated(x) == x

Negated(x) == [ k \in 1 .. Len(x) |-> 0 - x[k] ]

\* (troughs, peaks) of a window
detect_local_extrema(series, order, prominence) ==
  << FindPeaks(Negated(series), order, prominence),
     FindPeaks(series, order, prominence) >>

\* ---------------------------------------------------- trendline fitting
\* "no value": np.nan for a price or an intercept, None for a model
NaN == << >>

\* the time coordinate of bar i (dates[i].toordinal() + dates[i].hour/24),
\* counted in bars
TimeCoord(i) == i

Slopes == { -1, 0, 1 }

\* the prices at the extrema never fall (dir = 1) or never rise (dir = -1)
Monotone(prices, extrema_idx, dir) ==
  \A k \in 1 .. Len(extrema_idx) - 1 :
     dir * At(prices, extrema_idx[k]) <= dir * At(prices, extrema_idx[k + 1])

\* the prices at the extrema rise (dir = 1) or fall (dir = -1) at each step
StrictlyMonotone(prices, extrema_idx, dir) ==
  \A k \in 1 .. Len(extrema_idx) - 1 :
     dir * At(prices, extrema_idx[k]) < dir * At(prices, extrema_idx[k + 1])

\* what fit_trendline_ransac may return at bar i for the points at
\* extrema_idx: the final estimator is a least-squares line through two or
\* more of the points, so its slope is not negative where the prices never
\* fall, not positive where they never rise, positive where they rise at
\* each step and negative where they fall at each step; the intercept puts the
\* line, at bar i, on one of the values 1 .. MaxLine
FitOutcomes(prices, extrema_idx, i) ==
  { [m |-> m, b |-> v - m * TimeCoord(i)] :
      m \in { sl \in Slopes :
                /\ Monotone(prices, extrema_idx, 1) => sl >= 0
                /\ Monotone(prices, extrema_idx, -1) => sl <= 0
                /\ StrictlyMonotone(prices, extrema_idx, 1) => sl > 0
                /\ StrictlyMonotone(prices, extrema_idx, -1) => sl < 0 },
      v \in 1 .. MaxLine }

\* fit_trendline_ransac at bar i: with fewer than 2 points it raises
\* ValueError and returns nothing (the empty set), else one of FitOutcomes
fit_trendline_ransac(prices, extrema_idx, i) ==
  IF Len(extrema_idx) < 2 THEN {}
  ELSE FitOutcomes(prices, extrema_idx, i)

\* variant of FitterCalled: trendline_from_extrema does not test for fewer
\* than 2 points before it calls the fitter
FitterCalledAnyLength(extrema_idx, p) ==
  Len(extrema_idx) >= p.min_points_for_trend

\* the fitter runs on a candidate's extrema only if there are at least
\* min_points_for_trend of them (the simulator's test) and at least 2
\* (trendline_from_extrema's test)
FitterCalled(extrema_idx, p) ==
  Len(extrema_idx) >= p.min_points_for_trend /\ Len(extrema_idx) >= 2

\* the fits to consider for a candidate: one placeholder, never read, where
\* the fitter is not called; none where the fitter raises
Fits(prices, extrema_idx, p, i) ==
  IF FitterCalled(extrema_idx, p)
  THEN fit_trendline_ransac(prices, extrema_idx, i)
  ELSE { [m |-> 0, b |-> 0] }

\* the dict the simulator uses where no line is fitted
NoTrendInfo(used) ==
  [model |-> NaN, slope |-> 0, intercept |-> NaN, used_points |-> used]

trendline_from_extrema(prices, extrema_idx, fit) ==
  IF Len(extrema_idx) < 2
  THEN [model |-> NaN, slope |-> 0,
        intercept |-> IF Len(extrema_idx) > 0
                      THEN << At(prices, extrema_idx[1]) >> ELSE NaN,
        used_points |-> extrema_idx]
  ELSE [model |-> << fit.m, fit.b >>, slope |-> fit.m,
        intercept |-> << fit.b >>, used_points |-> extrema_idx]

\* the line's price at bar i, NaN without a model
line_value_at(model_info, i) ==
  IF model_info.model = NaN THEN NaN
  ELSE << model_info.model[1] * TimeCoord(i) + model_info.model[2] >>

\* variant of is_touching_line: the difference is taken without abs()
is_touching_line_signed(price, line_price, tolerance) ==
  IF line_price = NaN THEN FALSE
  ELSE tolerance[2] * (price - line_price[1])
         <= tolerance[1] * line_price[1]

\* abs(price - line_price) <= tolerance * line_price, tolerance = tn/td
is_touching_line(price, line_price, tolerance) ==
  IF line_price = NaN THEN FALSE
  ELSE tolerance[2] * Abs(price - line_price[1])
         <= tolerance[1] * line_price[1]

\* ------------------------------------------ backtest_trendline_strategy
InitialCash == 100000

WindowFactor == 6

Window(p) == p.rebalance_bars * WindowFactor

StartIdx(i, p) == Max(0, i - Window(p))

\* variant of SubPrices: the window also holds the bar after bar i
SubPricesLookahead(prices, i, p) ==
  SubSeq(prices, StartIdx(i, p) + 1, Min(i + 2, Len(prices)))

\* prices.iloc[start_idx : i + 1]
SubPrices(prices, i, p) == SubSeq(prices, StartIdx(i, p) + 1, i + 1)

Shifted(idx, by) == [ k \in 1 .. Len(idx) |-> by + idx[k] ]

CandidateInfo(prices, extrema_full, p, fit) ==
  IF Len(extrema_full) >= p.min_points_for_trend
  THEN trendline_from_extrema(prices, extrema_full, fit)
  ELSE NoTrendInfo(extrema_full)

\* variant of Qualifies: the sign of the slope is not tested
QualifiesAnySlope(info, sign, p) ==
  Len(info.used_points) >= p.min_points_for_trend

Qualifies(info, sign, p) ==
  /\ sign * info.slope > 0
  /\ Len(info.used_points) >= p.min_points_for_trend

\* (troughs_full, peaks_full) of bar i: the extrema of the trailing window
\* as indices into the whole series
Extrema(prices, i, p) ==
  LET ext == detect_local_extrema(SubPrices(prices, i, p),
                                  p.order, p.prominence)
  IN  << Shifted(ext[1], StartIdx(i, p)), Shifted(ext[2], StartIdx(i, p)) >>

\* the two candidates of bar i and whether each qualifies
Candidates(prices, ext, p, fitS, fitR) ==
  LET support_info == CandidateInfo(prices, ext[1], p, fitS)
      resistance_info == CandidateInfo(prices, ext[2], p, fitR)
  IN  [support_info |-> support_info,
       resistance_info |-> resistance_info,
       uptrend |-> Qualifies(support_info, 1, p),
       downtrend |-> Qualifies(resistance_info, -1, p)]

\* variant of TrendUpdate: the uptrend wins when both candidates qualify
TrendUpdateUptrendFirst(last_trend, active_trend_info, c) ==
  IF c.uptrend
  THEN [active_trend |-> "uptrend", active_trend_info |-> c.support_info]
  ELSE IF c.downtrend
  THEN [active_trend |-> "downtrend",
        active_trend_info |-> c.resistance_info]
  ELSE [active_trend |-> last_trend,
        active_trend_info |-> IF last_trend # "None" THEN active_trend_info
                              ELSE NoTrendInfo(<< >>)]

\* variant of TrendUpdate: back to no trend when no candidate qualifies
TrendUpdateRevertToFlat(last_trend, active_trend_info, c) ==
  IF c.uptrend /\ ~c.downtrend
  THEN [active_trend |-> "uptrend", active_trend_info |-> c.support_info]
  ELSE IF c.downtrend /\ ~c.uptrend
  THEN [active_trend |-> "downtrend",
        active_trend_info |-> c.resistance_info]
  ELSE IF c.uptrend /\ c.downtrend
  THEN [active_trend |-> last_trend,
        active_trend_info |-> IF last_trend # "None" THEN active_trend_info
                              ELSE NoTrendInfo(<< >>)]
  ELSE [active_trend |-> "None", active_trend_info |-> NoTrendInfo(<< >>)]

\* variant of TrendUpdate: a candidate that confirms the trend already
\* held does not replace the held model
TrendUpdateKeepModel(last_trend, active_trend_info, c) ==
  IF c.uptrend /\ ~c.downtrend
  THEN [active_trend |-> "uptrend",
        active_trend_info |-> IF last_trend = "uptrend"
                              THEN active_trend_info ELSE c.support_info]
  ELSE IF c.downtrend /\ ~c.uptrend
  THEN [active_trend |-> "downtrend",
        active_trend_info |-> IF last_trend = "downtrend"
                              THEN active_trend_info ELSE c.resistance_info]
  ELSE [active_trend |-> last_trend,
        active_trend_info |-> IF last_trend # "None" THEN active_trend_info
                              ELSE NoTrendInfo(<< >>)]

\* "only one trend active at a time": the active trend and its info after
\* the bar, from the ones held before it (last_trend, active_trend_info)
TrendUpdate(last_trend, active_trend_info, c) ==
  IF c.uptrend /\ ~c.downtrend
  THEN [active_trend |-> "uptrend", active_trend_info |-> c.support_info]
  ELSE IF c.downtrend /\ ~c.uptrend
  THEN [active_trend |-> "downtrend",
        active_trend_info |-> c.resistance_info]
  ELSE [active_trend |-> last_trend,
        active_trend_info |-> IF last_trend # "None" THEN active_trend_info
                              ELSE NoTrendInfo(<< >>)]

\* variant of SwitchLog: the first trend of a run is not logged
SwitchLogAfterFirst(trend_switches, last_trend, active_trend, i) ==
  IF active_trend # last_trend /\ last_trend # "None"
  THEN Append(trend_switches, << i, active_trend >>)
  ELSE trend_switches

\* variant of SwitchLog: every bar logs its trend
SwitchLogAlways(trend_switches, last_trend, active_trend, i) ==
  Append(trend_switches, << i, active_trend >>)

\* variant of SwitchLog: the trend is compared with "no trend"
SwitchLogAnyTrend(trend_switches, last_trend, active_trend, i) ==
  IF active_trend # "None"
  THEN Append(trend_switches, << i, active_trend >>)
  ELSE trend_switches

SwitchLog(trend_switches, last_trend, active_trend, i) ==
  IF active_trend # last_trend
  THEN Append(trend_switches, << i, active_trend >>)
  ELSE trend_switches

\* variant of OpenPosition: the entry price is not recorded
OpenPositionNoEntryPrice(a, side, type, cur_price, i) ==
  [position |-> side, entry_price |-> a.entry_price,
   position_size |-> a.cash, cash |-> Zero,
   trades |-> Append(a.trades, [date |-> i, type |-> type,
                                price |-> cur_price, size |-> a.cash])]

\* variant of OpenPosition: the position is sized in units, cash / price
OpenPositionInUnits(a, side, type, cur_price, i) ==
  [position |-> side, entry_price |-> cur_price,
   position_size |-> RDiv(a.cash, RInt(cur_price)), cash |-> Zero,
   trades |-> Append(a.trades, [date |-> i, type |-> type,
                                price |-> cur_price, size |-> a.cash])]

\* the account (position, entry_price, cash, position_size, trades) after
\* the entry/exit logic of bar i
OpenPosition(a, side, type, cur_price, i) ==
  [position |-> side, entry_price |-> cur_price,
   position_size |-> a.cash, cash |-> Zero,
   trades |-> Append(a.trades, [date |-> i, type |-> type,
                                price |-> cur_price, size |-> a.cash])]

\* variant of ClosePosition: the entry price is not cleared
ClosePositionKeepsEntryPrice(a, type, pnl, cur_price, i) ==
  [position |-> 0, entry_price |-> a.entry_price,
   position_size |-> Zero, cash |-> RAdd(a.position_size, pnl),
   trades |-> Append(a.trades, [date |-> i, type |-> type,
                                price |-> cur_price, pnl |-> pnl])]

\* variant of ClosePosition: every close is logged as exit_long
ClosePositionAsExitLong(a, type, pnl, cur_price, i) ==
  [position |-> 0, entry_price |-> 0,
   position_size |-> Zero, cash |-> RAdd(a.position_size, pnl),
   trades |-> Append(a.trades, [date |-> i, type |-> "exit_long",
                                price |-> cur_price, pnl |-> pnl])]

ClosePosition(a, type, pnl, cur_price, i) ==
  [position |-> 0, entry_price |-> 0,
   position_size |-> Zero, cash |-> RAdd(a.position_size, pnl),
   trades |-> Append(a.trades, [date |-> i, type |-> type,
                                price |-> cur_price, pnl |-> pnl])]

\* (exit - entry) / entry * position_size, with the sign of the side
TradePnl(a, cur_price) ==
  RMul(Rat(a.position * (cur_price - a.entry_price), a.entry_price),
       a.position_size)

EntryLogic(a, active_trend, trendline_price, cur_price, tolerance, i) ==
  IF active_trend = "uptrend"
       /\ is_touching_line(cur_price, trendline_price, tolerance)
  THEN OpenPosition(a, 1, "buy", cur_price, i)
  ELSE IF active_trend = "downtrend"
       /\ is_touching_line(cur_price, trendline_price, tolerance)
  THEN OpenPosition(a, -1, "sell_short", cur_price, i)
  ELSE a

\* variant of ExitLogic: a position that is not closed takes the close as
\* its new entry price
ExitLogicRebase(a, trendline_price, cur_price, i) ==
  IF a.position = 1
  THEN IF trendline_price # NaN /\ cur_price < trendline_price[1]
       THEN ClosePosition(a, "exit_long", TradePnl(a, cur_price),
                          cur_price, i)
       ELSE [a EXCEPT !.entry_price = cur_price]
  ELSE IF trendline_price # NaN /\ cur_price > trendline_price[1]
       THEN ClosePosition(a, "exit_short", TradePnl(a, cur_price),
                          cur_price, i)
       ELSE [a EXCEPT !.entry_price = cur_price]

\* variant of ExitLogic: a close on the line already exits
ExitLogicOnLine(a, trendline_price, cur_price, i) ==
  IF a.position = 1
  THEN IF trendline_price # NaN /\ cur_price <= trendline_price[1]
       THEN ClosePosition(a, "exit_long", TradePnl(a, cur_price),
                          cur_price, i)
       ELSE a
  ELSE IF trendline_price # NaN /\ cur_price >= trendline_price[1]
       THEN ClosePosition(a, "exit_short", TradePnl(a, cur_price),
                          cur_price, i)
       ELSE a

ExitLogic(a, trendline_price, cur_price, i) ==
  IF a.position = 1
  THEN IF trendline_price # NaN /\ cur_price < trendline_price[1]
       THEN ClosePosition(a, "exit_long", TradePnl(a, cur_price),
                          cur_price, i)
       ELSE a
  ELSE IF trendline_price # NaN /\ cur_price > trendline_price[1]
       THEN ClosePosition(a, "exit_short", TradePnl(a, cur_price),
                          cur_price, i)
       ELSE a

\* variant of TradeLogic: the entry logic is not guarded by position == 0
TradeLogicOpen(a, active_trend, trendline_price, cur_price, tolerance, i) ==
  LET e == EntryLogic(a, active_trend, trendline_price, cur_price,
                      tolerance, i)
  IN  IF e # a \/ a.position = 0 THEN e
      ELSE ExitLogic(a, trendline_price, cur_price, i)

\* variant of TradeLogic: the exit logic follows the entry logic with `if`
\* in place of `elif`
TradeLogicEntryThenExit(a, active_trend, trendline_price, cur_price, tolerance, i) ==
  LET e == IF a.position = 0
           THEN EntryLogic(a, active_trend, trendline_price, cur_price,
                           tolerance, i)
           ELSE a
  IN  IF e.position # 0 THEN ExitLogic(e, trendline_price, cur_price, i)
      ELSE e

TradeLogic(a, active_trend, trendline_price, cur_price, tolerance, i) ==
  IF a.position = 0
  THEN EntryLogic(a, active_trend, trendline_price, cur_price, tolerance, i)
  ELSE ExitLogic(a, trendline_price, cur_price, i)

\* variant of MarkToMarket: the short is valued with the long's ratio
MarkToMarketLongRatio(a, cur_price) ==
  IF a.position = 0 THEN a.cash
  ELSE RMul(a.position_size, Rat(cur_price, a.entry_price))

\* mark-to-market equity of the account at cur_price
MarkToMarket(a, cur_price) ==
  IF a.position = 0 THEN a.cash
  ELSE IF a.position = 1
  THEN RMul(a.position_size, Rat(cur_price, a.entry_price))
  ELSE RMul(a.position_size, Rat(a.entry_price, cur_price))

\* one iteration of the bar loop on the run state s; ext is Extrema of
\* the bar, fitS and fitR what the fitter returns for the two candidates
BarStep(s, prices, i, p, ext, fitS, fitR) ==
  LET c == Candidates(prices, ext, p, fitS, fitR)
      t == TrendUpdate(s.last_trend, s.active_trend_info, c)
      cur_price == At(prices, i)
      trendline_price == line_value_at(t.active_trend_info, i)
      a == TradeLogic([position |-> s.position,
                       entry_price |-> s.entry_price,
                       position_size |-> s.position_size,
                       cash |-> s.cash, trades |-> s.trades],
                      t.active_trend, trendline_price, cur_price,
                      p.touch_tolerance, i)
  IN  [position |-> a.position, entry_price |-> a.entry_price,
       position_size |-> a.position_size, cash |-> a.cash,
       trades |-> a.trades,
       equity |-> Append(s.equity, MarkToMarket(a, cur_price)),
       active_trend |-> t.active_trend,
       active_trend_info |-> t.active_trend_info,
       last_trend |-> t.active_trend,
       trend_switches |-> SwitchLog(s.trend_switches, s.last_trend,
                                    t.active_trend, i)]

\* the run state before the first bar
InitialRun ==
  [position |-> 0, entry_price |-> 0, position_size |-> Zero,
   cash |-> RInt(InitialCash), trades |-> << >>, equity |-> << >>,
   active_trend |-> "None", active_trend_info |-> NoTrendInfo(<< >>),
   last_trend |-> "None", trend_switches |-> << >>]

\* ------------------------------------------------------ the simulator run
VARIABLES
  df,                 \* the closes of the input bars, df["Close"]
  params,             \* order, prominence, rebalance_bars, touch_tolerance,
                      \* min_points_for_trend of this run
  pc,                 \* "loop", then "returned" and "combo_returned", or
                      \* "raised"
  i,                  \* the next bar of the loop
  position, entry_price, cash, position_size, equity, trades,
  active_trend, active_trend_info, last_trend, trend_switches,
  bar                 \* history: what the last bar saw, << >> before bar 0

\* the grid search of __main__
VARIABLES
  param_combos,       \* the grid's combinations, in enumeration order
  mpc,                \* "start", "gather", "rank", then "done" or "crashed"
  futures,            \* per combination: "none", "running", "done" or "raised"
  outcome,            \* per finished combination: (median_pnl, final_equity)
  yielded,            \* the futures as_completed has handed out
  results,            \* the triples collected, in the order of collection
  rank_pos,           \* the ranking loop's position in results
  best_median, best_median_params, best_median_val,
  best_equity, best_equity_params, best_equity_val

sweepVars ==
  << param_combos, mpc, futures, outcome, yielded, results, rank_pos,
     best_median, best_median_params, best_median_val,
     best_equity, best_equity_params, best_equity_val >>

\* a second run of the simulator, on the bars dfB, for comparing two runs
VARIABLES dfB, runB

pairVars == << dfB, runB >>

\* one call of detect_local_extrema
VARIABLES
  sub_prices,         \* the window passed as `series`
  det_order,          \* the argument `order`
  det_prominence,     \* the argument `prominence`
  detected            \* None before the call, then (troughs, peaks)

detectVars == << sub_prices, det_order, det_prominence, detected >>

simVars ==
  << df, params, pc, i, position, entry_price, cash, position_size, equity,
     trades, active_trend, active_trend_info, last_trend, trend_switches,
     bar >>

\* the lengths and parameter sets of the runs explored
DfLengths == { 0, MaxBars }

ParamSets ==
  { [order |-> 1, prominence |-> 0, rebalance_bars |-> 1,
     touch_tolerance |-> << 1, 2 >>, min_points_for_trend |-> 2] }

BarSequences == UNION { [1 .. len -> Closes] : len \in DfLengths }

Run ==
  [position |-> position, entry_price |-> entry_price,
   position_size |-> position_size, cash |-> cash, trades |-> trades,
   equity |-> equity, active_trend |-> active_trend,
   active_trend_info |-> active_trend_info, last_trend |-> last_trend,
   trend_switches |-> trend_switches]

SimStartWith(bars, p) ==
  /\ df = bars
  /\ params = p
  /\ pc = "loop"
  /\ i = 0
  /\ position = InitialRun.position
  /\ entry_price = InitialRun.entry_price
  /\ cash = InitialRun.cash
  /\ position_size = InitialRun.position_size
  /\ equity = InitialRun.equity
  /\ trades = InitialRun.trades
  /\ active_trend = InitialRun.active_trend
  /\ active_trend_info = InitialRun.active_trend_info
  /\ last_trend = InitialRun.last_trend
  /\ trend_switches = InitialRun.trend_switches
  /\ bar = << >>

SimStart(bars) == \E p \in ParamSets : SimStartWith(bars, p)

\* one pass of `for i in range(n)`, given the bar's extrema and what the
\* fitter returns for the two candidates
BarWith(ext, fitS, fitR) ==
  /\ \E r \in { BarStep(Run, df, i, params, ext, fitS, fitR) },
        c \in { Candidates(df, ext, params, fitS, fitR) } :
           /\ position' = r.position
           /\ entry_price' = r.entry_price
           /\ cash' = r.cash
           /\ position_size' = r.position_size
           /\ equity' = r.equity
           /\ trades' = r.trades
           /\ active_trend' = r.active_trend
           /\ active_trend_info' = r.active_trend_info
           /\ last_trend' = r.last_trend
           /\ trend_switches' = r.trend_switches
           /\ bar' = << [i |-> i, cur_price |-> At(df, i),
                        uptrend |-> c.uptrend, downtrend |-> c.downtrend,
                        trendline_price |->
                          line_value_at(r.active_trend_info, i),
                        before |-> Run] >>
  /\ i' = i + 1
  /\ UNCHANGED << df, params, pc >>

\* an exception raised inside the bar loop leaves the function at bar i
BarRaises ==
  /\ pc' = "raised"
  /\ UNCHANGED << df, params, i, position, entry_price, cash, position_size,
                  equity, trades, active_trend, active_trend_info,
                  last_trend, trend_switches, bar >>

Bar ==
  /\ pc = "loop"
  /\ i < Len(df)
  /\ \E ext \in { Extrema(df, i, params) } :
       IF Fits(df, ext[1], params, i) = {} \/ Fits(df, ext[2], params, i) = {}
       THEN BarRaises
       ELSE \E fitS \in Fits(df, ext[1], params, i),
               fitR \in Fits(df, ext[2], params, i) :
              BarWith(ext, fitS, fitR)

\* variant of Finish: the frame of an empty trade list is not indexed by
\* "date", so the function returns whatever the ledger holds
FinishReturnsEmpty ==
  /\ pc = "loop"
  /\ i = Len(df)
  /\ pc' = "returned"
  /\ UNCHANGED << df, params, i, position, entry_price, cash, position_size,
                  equity, trades, active_trend, active_trend_info,
                  last_trend, trend_switches, bar >>

\* after the loop: the ledgers become frames; set_index("date") on the
\* frame of an empty trade list has no "date" column and raises KeyError
Finish ==
  /\ pc = "loop"
  /\ i = Len(df)
  /\ pc' = IF trades = << >> THEN "raised" ELSE "returned"
  /\ UNCHANGED << df, params, i, position, entry_price, cash, position_size,
                  equity, trades, active_trend, active_trend_info,
                  last_trend, trend_switches, bar >>

\* the flat scenario: 10 bars of one constant close
FlatScenarios == { [ k \in 1 .. 10 |-> c ] : c \in Closes }

SimInit == \E bars \in BarSequences \cup FlatScenarios : SimStart(bars)

\* --------------------------------------------------- run_backtest_combo
\* a metric value: << 0, v >> is the number v, << -1, 0 >> is float("-inf")
MinusInf == << -1, 0 >>

Num(v) == << 0, v >>

\* trades["pnl"] without its NaN rows: the PnLs of the entries that closed
\* a position (an entry that opened one has no "pnl")
Pnls(ledger) ==
  LET closed == SelectSeq(ledger, LAMBDA e : "pnl" \in DOMAIN e)
  IN  [ k \in 1 .. Len(closed) |-> closed[k].pnl ]

\* a sequence of rationals in increasing order
RECURSIVE SortedRats(_)
SortedRats(s) ==
  IF s = << >> THEN << >>
  ELSE LET m == CHOOSE k \in 1 .. Len(s) :
                  \A j \in 1 .. Len(s) : RLe(s[k], s[j])
       IN  << s[m] >> \o SortedRats(SubSeq(s, 1, m - 1)
                                     \o SubSeq(s, m + 1, Len(s)))

\* Series.median(): the middle value, the mean of the two middle values of
\* an even number of them
Median(s) ==
  LET o == SortedRats(s)
      n == Len(o)
  IN  IF n % 2 = 1 THEN o[(n + 1) \div 2]
      ELSE RDiv(RAdd(o[n \div 2], o[(n \div 2) + 1]), RInt(2))

\* trades["pnl"].median() if "pnl" in trades.columns else float("-inf")
MedianPnl(ledger) ==
  IF Pnls(ledger) = << >> THEN MinusInf ELSE Num(Median(Pnls(ledger)))

\* result["equity"].iloc[-1]
FinalEquity(series) == Num(series[Len(series)])

\* the (median_pnl, final_equity) of the triple the worker returns
ComboResult == << MedianPnl(trades), FinalEquity(equity) >>

\* the worker after backtest_trendline_strategy returned: it computes the
\* two metrics and returns its triple; iloc[-1] of an empty series raises
ComboReturn ==
  /\ pc = "returned"
  /\ pc' = IF equity = << >> THEN "raised" ELSE "combo_returned"
  /\ UNCHANGED << df, params, i, position, entry_price, cash, position_size,
                  equity, trades, active_trend, active_trend_info,
                  last_trend, trend_switches, bar >>

\* ------------------------------------------------- two runs side by side
\* the fitter is given the same points in both runs
SameFitInput(pricesA, idxA, pricesB, idxB) ==
  /\ idxA = idxB
  /\ \A k \in 1 .. Len(idxA) : At(pricesA, idxA[k]) = At(pricesB, idxB[k])

\* the fits of run B's candidate: run A's fit where the points are the same
FitsB(pricesA, idxA, fitA, pricesB, idxB, p, at) ==
  IF SameFitInput(pricesA, idxA, pricesB, idxB) THEN { fitA }
  ELSE Fits(pricesB, idxB, p, at)

\* two sequences of MaxPairBars bars with closes in 1 .. MaxPairClose that
\* differ in the last bar only
PairInit ==
  /\ \E bars \in [1 .. MaxPairBars -> 1 .. MaxPairClose] :
       \E c \in (1 .. MaxPairClose) \ { bars[MaxPairBars] } :
          /\ SimStart(bars)
          /\ dfB = [bars EXCEPT ![MaxPairBars] = c]
  /\ runB = InitialRun

\* bar i of both runs; the fitter returns the same line in both runs where
\* it is given the same points
BarPair ==
  /\ pc = "loop"
  /\ i < Len(df)
  /\ \E ext \in { Extrema(df, i, params) },
        extB \in { Extrema(dfB, i, params) } :
     \E fitS \in Fits(df, ext[1], params, i),
        fitR \in Fits(df, ext[2], params, i) :
       /\ BarWith(ext, fitS, fitR)
       /\ \E fitSB \in FitsB(df, ext[1], fitS, dfB, extB[1], params, i),
             fitRB \in FitsB(df, ext[2], fitR, dfB, extB[2], params, i) :
            runB' = BarStep(runB, dfB, i, params, extB, fitSB, fitRB)
  /\ UNCHANGED dfB

\* ------------------------------------- two runs on the same bar sequence
\* the points lie on one line in (bar, price)
Collinear(prices, extrema_idx) ==
  \A k \in 1 .. Len(extrema_idx) - 2 :
     (At(prices, extrema_idx[k + 1]) - At(prices, extrema_idx[k]))
         * (extrema_idx[k + 2] - extrema_idx[k + 1])
       = (At(prices, extrema_idx[k + 2]) - At(prices, extrema_idx[k + 1]))
           * (extrema_idx[k + 1] - extrema_idx[k])

\* what the fitter may return in a second run for the same points, fitA
\* being the first run's line: RANSACRegressor is built without a
\* random_state, so it draws its samples from numpy's global random
\* state; 2 points, or points on one line, end in the same line whatever
\* is drawn, other points may end in another consensus set and line
FitsTwin(prices, extrema_idx, fitA, p, at) ==
  IF Len(extrema_idx) < 3 \/ Collinear(prices, extrema_idx) THEN { fitA }
  ELSE Fits(prices, extrema_idx, p, at)

\* the same MaxBars bars, with closes in 1 .. MaxPairClose, for both runs
TwinInit ==
  /\ \E bars \in [1 .. MaxBars -> 1 .. MaxPairClose] :
       SimStart(bars) /\ dfB = bars
  /\ runB = InitialRun

\* bar i of both runs, each with its own call of the fitter
BarTwin ==
  /\ pc = "loop"
  /\ i < Len(df)
  /\ \E ext \in { Extrema(df, i, params) } :
     \E fitS \in Fits(df, ext[1], params, i),
        fitR \in Fits(df, ext[2], params, i) :
       /\ BarWith(ext, fitS, fitR)
       /\ \E fitSB \in FitsTwin(df, ext[1], fitS, params, i),
             fitRB \in FitsTwin(df, ext[2], fitR, params, i) :
            runB' = BarStep(runB, dfB, i, params, ext, fitSB, fitRB)
  /\ UNCHANGED dfB

\* a > b on floats
Gt(a, b) == a[1] > b[1] \/ (a[1] = 0 /\ b[1] = 0 /\ a[2] > b[2])

None == << >>

GridOrder == << 4, 6, 8 >>

GridMinPoints == << 2, 3, 4 >>

\* list(product(orders, minPoints)): the last parameter varies fastest
Product(orders, minPoints) ==
  [ k \in 1 .. Len(orders) * Len(minPoints) |->
      << orders[((k - 1) \div Len(minPoints)) + 1],
         minPoints[((k - 1) % Len(minPoints)) + 1] >> ]

\* the grids explored: the first values of the two lists, MaxCombos
\* combinations at most
Grids ==
  { Product(SubSeq(GridOrder, 1, no), SubSeq(GridMinPoints, 1, nm)) :
      << no, nm >> \in
        { g \in (1 .. Len(GridOrder)) \X (1 .. Len(GridMinPoints)) :
            g[1] * g[2] <= MaxCombos } }

\* what run_backtest_combo returns for a run that does not raise
MedianValues == { MinusInf, Num(1) }

EquityValues == { Num(1), Num(2) }

Combos == 1 .. Len(param_combos)

SweepStart(grid) ==
  /\ param_combos = grid
  /\ mpc = "start"
  /\ futures = [ k \in 1 .. Len(grid) |-> "none" ]
  /\ outcome = [ k \in 1 .. Len(grid) |-> None ]
  /\ yielded = {}
  /\ results = << >>
  /\ rank_pos = 1
  /\ best_median = None
  /\ best_median_params = None
  /\ best_equity = None
  /\ best_equity_params = None
  /\ best_median_val = MinusInf
  /\ best_equity_val = MinusInf

\* one pass of futures = [executor.submit(...) for combo in param_combos]:
\* the next combination of the grid is handed to the pool, where it may
\* run and finish while the later ones are being submitted
Submit ==
  /\ mpc = "start"
  /\ \E k \in Combos :
       /\ futures[k] = "none"
       /\ \A j \in 1 .. k - 1 : futures[j] # "none"
       /\ futures' = [futures EXCEPT ![k] = "running"]
       /\ mpc' = IF k = Len(param_combos) THEN "gather" ELSE "start"
  /\ UNCHANGED << param_combos, outcome, yielded, results, rank_pos,
                  best_median, best_median_params, best_median_val,
                  best_equity, best_equity_params, best_equity_val >>

\* a worker process finishes run_backtest_combo: it returns its triple or
\* the simulator's exception is stored in the future
WorkerDone(k) ==
  /\ futures[k] = "running"
  /\ \/ \E m \in MedianValues, e \in EquityValues :
            /\ futures' = [futures EXCEPT ![k] = "done"]
            /\ outcome' = [outcome EXCEPT ![k] = << m, e >>]
     \/ /\ futures' = [futures EXCEPT ![k] = "raised"]
        /\ outcome' = outcome
  /\ UNCHANGED << param_combos, mpc, yielded, results, rank_pos, best_median,
                  best_median_params, best_median_val, best_equity,
                  best_equity_params, best_equity_val >>

\* variant of Collect: the gathering loop ends with the first result
CollectFirstCompleted(k) ==
  /\ mpc = "gather"
  /\ k \notin yielded
  /\ futures[k] \in { "done", "raised" }
  /\ yielded' = yielded \cup {k}
  /\ IF futures[k] = "raised"
     THEN mpc' = "crashed" /\ results' = results
     ELSE /\ results' = Append(results, << param_combos[k], outcome[k][1],
                                           outcome[k][2] >>)
          /\ mpc' = "rank"
  /\ UNCHANGED << param_combos, futures, outcome, rank_pos, best_median,
                  best_median_params, best_median_val, best_equity,
                  best_equity_params, best_equity_val >>

\* one pass of `for f in as_completed(futures)`: a finished future that was
\* not handed out yet is taken; f.result() re-raises a worker's exception,
\* which leaves the with-block and ends the program
Collect(k) ==
  /\ mpc = "gather"
  /\ k \notin yielded
  /\ futures[k] \in { "done", "raised" }
  /\ yielded' = yielded \cup {k}
  /\ IF futures[k] = "raised"
     THEN mpc' = "crashed" /\ results' = results
     ELSE /\ results' = Append(results, << param_combos[k], outcome[k][1],
                                           outcome[k][2] >>)
          /\ mpc' = IF yielded' = Combos THEN "rank" ELSE "gather"
  /\ UNCHANGED << param_combos, futures, outcome, rank_pos, best_median,
                  best_median_params, best_median_val, best_equity,
                  best_equity_params, best_equity_val >>

\* one pass of `for combo, median_pnl, final_equity in results`
Rank ==
  /\ mpc = "rank"
  /\ rank_pos <= Len(results)
  /\ LET combo == results[rank_pos][1]
         median_pnl == results[rank_pos][2]
         final_equity == results[rank_pos][3]
     IN  /\ IF Gt(median_pnl, best_median_val)
            THEN /\ best_median_val' = median_pnl
                 /\ best_median' = median_pnl
                 /\ best_median_params' = combo
            ELSE UNCHANGED << best_median_val, best_median,
                              best_median_params >>
         /\ IF Gt(final_equity, best_equity_val)
            THEN /\ best_equity_val' = final_equity
                 /\ best_equity' = final_equity
                 /\ best_equity_params' = combo
            ELSE UNCHANGED << best_equity_val, best_equity,
                              best_equity_params >>
  /\ rank_pos' = rank_pos + 1
  /\ UNCHANGED << param_combos, mpc, futures, outcome, yielded, results >>

\* the end of the ranking loop and the two prints: formatting None with
\* :.2f raises TypeError
Report ==
  /\ mpc = "rank"
  /\ rank_pos > Len(results)
  /\ mpc' = IF best_median = None \/ best_equity = None
            THEN "crashed" ELSE "done"
  /\ UNCHANGED << param_combos, futures, outcome, yielded, results, rank_pos,
                  best_median, best_median_params, best_median_val,
                  best_equity, best_equity_params, best_equity_val >>

\* ------------------------------------------------------- specifications
vars == << simVars, pairVars, sweepVars, detectVars >>

PairIdle == dfB = << >> /\ runB = InitialRun

DetectIdle ==
  sub_prices = << >> /\ det_order = 1 /\ det_prominence = 0 /\ detected = None


\* one run of backtest_trendline_strategy
Init == SimInit /\ PairIdle /\ SweepStart(<< >>) /\ DetectIdle

Next ==
  \/ Bar /\ UNCHANGED << pairVars, sweepVars, detectVars >>
  \/ Finish /\ UNCHANGED << pairVars, sweepVars, detectVars >>
  \/ ComboReturn /\ UNCHANGED << pairVars, sweepVars, detectVars >>

\* two runs with the same parameters on bars that agree up to the last bar
InitPair == PairInit /\ SweepStart(<< >>) /\ DetectIdle

NextPair ==
  \/ BarPair /\ UNCHANGED << sweepVars, detectVars >>
  \/ Finish /\ UNCHANGED << pairVars, sweepVars, detectVars >>

SpecPair == InitPair /\ [][NextPair]_vars

\* two runs with the same parameters on the same bars
InitTwin == TwinInit /\ SweepStart(<< >>) /\ DetectIdle

NextTwin ==
  \/ BarTwin /\ UNCHANGED << sweepVars, detectVars >>
  \/ Finish /\ UNCHANGED << pairVars, sweepVars, detectVars >>

SpecTwin == InitTwin /\ [][NextTwin]_vars

\* runs with min_points_for_trend below the fitter's minimum of 2 points
FewMinPoints == { 0, 1 }

InitFew ==
  /\ \E bars \in [1 .. MaxFewBars -> 1 .. MaxFewClose], mp \in FewMinPoints :
       SimStartWith(bars, [order |-> 1, prominence |-> 0,
                           rebalance_bars |-> 1,
                           touch_tolerance |-> << 1, 2 >>,
                           min_points_for_trend |-> mp])
  /\ PairIdle
  /\ SweepStart(<< >>)
  /\ DetectIdle

SpecFew == InitFew /\ [][Next]_vars

\* runs of MaxSlideBars bars, more than the trailing window holds
InitSlide ==
  /\ \E bars \in [1 .. MaxSlideBars -> 1 .. MaxSlideClose] : SimStart(bars)
  /\ PairIdle
  /\ SweepStart(<< >>)
  /\ DetectIdle

SpecSlide == InitSlide /\ [][Next]_vars

Spec == Init /\ [][Next]_vars

\* the grid search, the workers' runs reduced to what they return
InitSweep ==
  /\ SimStart(<< >>) /\ PairIdle /\ DetectIdle
  /\ \E grid \in Grids : SweepStart(grid)

NextSweep ==
  \/ Submit /\ UNCHANGED << simVars, pairVars, detectVars >>
  \/ \E k \in Combos : WorkerDone(k) /\ UNCHANGED << simVars, pairVars, detectVars >>
  \/ \E k \in Combos : Collect(k) /\ UNCHANGED << simVars, pairVars, detectVars >>
  \/ Rank /\ UNCHANGED << simVars, pairVars, detectVars >>
  \/ Report /\ UNCHANGED << simVars, pairVars, detectVars >>

SpecSweep == InitSweep /\ [][NextSweep]_vars

\* one call of the extrema detector on a window of up to MaxWindow closes
Windows == UNION { [1 .. len -> 1 .. MaxWindowClose] : len \in 0 .. MaxWindow }

InitDetect ==
  /\ SimStart(<< >>) /\ PairIdle /\ SweepStart(<< >>)
  /\ sub_prices \in Windows
  /\ det_order \in 1 .. MaxOrder
  /\ det_prominence \in 0 .. MaxProminence
  /\ detected = None

Detect ==
  /\ detected = None
  /\ detected' = detect_local_extrema(sub_prices, det_order, det_prominence)
  /\ UNCHANGED << sub_prices, det_order, det_prominence >>

NextDetect == Detect /\ UNCHANGED << simVars, pairVars, sweepVars >>

SpecDetect == InitDetect /\ [][NextDetect]_vars

\* ------------------------------------------------ properties of the run
LastBar == bar[1]

Before == bar[1].before

\* the touch predicate |close - line_price| <= tolerance * line_price at
\* the last bar
TouchAtLastBar ==
  /\ LastBar.trendline_price # NaN
  /\ params.touch_tolerance[2]
        * Abs(LastBar.cur_price - LastBar.trendline_price[1])
       <= params.touch_tolerance[1] * LastBar.trendline_price[1]

\* C1: hysteresis: at a bar where neither candidate qualifies, or both do,
\* the active trend and its model after the bar are those held before it
C1_Hysteresis ==
  (bar # << >> /\ LastBar.uptrend = LastBar.downtrend)
    => /\ active_trend = Before.active_trend
       /\ active_trend_info = Before.active_trend_info

\* both candidates qualified at the last bar and the downtrend was kept
C1_Witness ==
  /\ bar # << >>
  /\ LastBar.uptrend /\ LastBar.downtrend
  /\ Before.active_trend = "downtrend"
  /\ active_trend = "downtrend"

\* C2: once the active trend is uptrend or downtrend it is never again
\* "no trend" in the same run
C2_NeverBackToFlat ==
  [][active_trend # "None" => active_trend' # "None"]_vars

\* a trend was held and no candidate qualified at the last bar
C2_Witness ==
  /\ bar # << >>
  /\ ~LastBar.uptrend /\ ~LastBar.downtrend
  /\ Before.active_trend # "None"
  /\ active_trend = Before.active_trend

\* the ledger entries a step appends
NewTrades == SubSeq(trades', Len(trades) + 1, Len(trades'))

OpenTypes == { "buy", "sell_short" }

\* C3: a position is opened at a bar only if the position was flat when
\* the bar began, and a bar opens at most one position
C3_OpenOnlyWhenFlat ==
  [][ /\ (position' # 0 /\ position' # position) => position = 0
      /\ \A k \in 1 .. Len(NewTrades) :
           NewTrades[k].type \in OpenTypes
             => (position = 0 /\ Len(NewTrades) = 1) ]_vars

\* a position is held and the line is touched in the active trend that
\* would open it: nothing was opened at the last bar
C3_Witness ==
  /\ bar # << >>
  /\ Before.position = 1 /\ position = 1
  /\ active_trend = "uptrend"
  /\ TouchAtLastBar
  /\ trades = Before.trades

\* C4: whenever the position is long or short its notional is > 0
C4_NotionalPositive ==
  position # 0 => RLt(Zero, position_size)

\* C5: every value of the equity series is >= 0 (closes are positive)
C5_EquityNonNegative ==
  \A k \in 1 .. Len(equity) : RLe(Zero, equity[k])

\* C6: entry rule: from flat, a long opens iff the trend is uptrend and the
\* close touches the line, a short iff it is downtrend and the close
\* touches the line; the notional is all the cash, the cash becomes 0 and
\* the entry price is the close
C6_EntryRule ==
  (bar # << >> /\ Before.position = 0)
    => /\ position = 1 <=> (active_trend = "uptrend" /\ TouchAtLastBar)
       /\ position = -1 <=> (active_trend = "downtrend" /\ TouchAtLastBar)
       /\ position # 0
            => /\ position_size = Before.cash
               /\ cash = Zero
               /\ entry_price = LastBar.cur_price

\* a long was opened at the last bar with the close below the line
C6_Witness ==
  /\ bar # << >>
  /\ Before.position = 0 /\ position = 1
  /\ LastBar.cur_price < LastBar.trendline_price[1]

\* (exit - entry) / entry * notional, negated for a short
ExpectedPnl(side) ==
  RMul(RDiv(RInt(side * (LastBar.cur_price - Before.entry_price)),
            RInt(Before.entry_price)),
       Before.position_size)

Cleared(side) ==
  /\ position = 0 /\ entry_price = 0 /\ position_size = Zero
  /\ cash = RAdd(Before.position_size, ExpectedPnl(side))
  /\ trades[Len(trades)].pnl = ExpectedPnl(side)

\* C7: exit rule: a long held at the start of a bar is closed at the bar
\* iff close < line, a short iff close > line; the close realizes the PnL,
\* returns notional + PnL to cash and clears the position
C7_ExitRule ==
  bar # << >> =>
    /\ Before.position = 1 =>
         IF LastBar.trendline_price # NaN
              /\ LastBar.cur_price < LastBar.trendline_price[1]
         THEN Cleared(1)
         ELSE position = 1 /\ trades = Before.trades
    /\ Before.position = -1 =>
         IF LastBar.trendline_price # NaN
              /\ LastBar.cur_price > LastBar.trendline_price[1]
         THEN Cleared(-1)
         ELSE position = -1 /\ trades = Before.trades

\* a short was held with the close on the line: it is not closed
C7_Witness ==
  /\ bar # << >>
  /\ Before.position = -1 /\ position = -1
  /\ LastBar.trendline_price = << LastBar.cur_price >>

\* the equity point of a bar, from the account after the bar's action
ExpectedEquity(pos, csh, size, entry, close) ==
  IF pos = 0 THEN csh
  ELSE IF pos = 1 THEN RDiv(RMul(size, RInt(close)), RInt(entry))
  ELSE RDiv(RMul(size, RInt(entry)), RInt(close))

\* C8: every bar appends exactly one equity point: cash when flat after the
\* bar's action, notional * close / entry when long, notional * entry /
\* close when short; the series is as long as the bars processed
C8_EquityPerBar ==
  /\ [](Len(equity) = i)
  /\ [][ IF i' = i + 1
         THEN equity' = Append(equity,
                          ExpectedEquity(position', cash', position_size',
                                         entry_price', At(df, i)))
         ELSE equity' = equity ]_vars

\* a short is held at a close other than its entry price
C8_Witness ==
  /\ bar # << >>
  /\ position = -1
  /\ LastBar.cur_price > entry_price
  /\ Len(equity) = MaxBars

\* the two bar sequences agree on their first k bars
Agree(k) == \A j \in 1 .. k : df[j] = dfB[j]

\* the entries of a ledger dated before bar k; date(e) is the entry's bar
TradesBefore(ledger, k) == SelectSeq(ledger, LAMBDA e : e.date < k)

SwitchesBefore(log, k) == SelectSeq(log, LAMBDA e : e[1] < k)

\* C9: causality: where two bar sequences agree on their first k bars (and
\* the fitter returns the same lines for the same points), the equity
\* values, trade-ledger entries and trend-switch entries of those k bars
\* are the same in both runs, and so is the trend state after bar k - 1
C9_Causal ==
  \A k \in 0 .. i :
    Agree(k) =>
      /\ SubSeq(equity, 1, k) = SubSeq(runB.equity, 1, k)
      /\ TradesBefore(trades, k) = TradesBefore(runB.trades, k)
      /\ SwitchesBefore(trend_switches, k)
           = SwitchesBefore(runB.trend_switches, k)
      /\ k = i => /\ active_trend = runB.active_trend
                  /\ active_trend_info = runB.active_trend_info

\* the two runs opened a position before the bars differ and end with
\* different equity
C9_Witness ==
  /\ dfB # << >>
  /\ i = MaxPairBars
  /\ trades # << >> /\ trades[1].date < MaxPairBars - 1
  /\ equity[MaxPairBars] # runB.equity[MaxPairBars]
  /\ SubSeq(equity, 1, MaxPairBars - 1)
       = SubSeq(runB.equity, 1, MaxPairBars - 1)

\* the best value of metric column c (2: median PnL, 3: final equity)
\* over the collected results
IsBest(k, c) ==
  \A j \in 1 .. Len(results) : ~Gt(results[j][c], results[k][c])

\* the combination that comes first in the grid's enumeration order among
\* those whose results hold the best value of column c
FirstBestInGrid(c) ==
  LET best == { results[k][1] :
                  k \in { j \in 1 .. Len(results) : IsBest(j, c) } }
      first == CHOOSE g \in Combos :
                 /\ param_combos[g] \in best
                 /\ \A h \in 1 .. g - 1 : param_combos[h] \notin best
  IN  param_combos[first]

\* C10: once ranked, each leaderboard's winner is, among the combinations
\* that share the best value, the first in grid enumeration order
C10_TiesToFirstInGrid ==
  (mpc = "done")
    => /\ best_median_params = FirstBestInGrid(2)
       /\ best_equity_params = FirstBestInGrid(3)

\* the combinations whose worker returned the sentinel float("-inf") as
\* its median PnL: their runs realized no trade
NoTradeCombos ==
  { param_combos[k] :
      k \in { j \in Combos : outcome[j] # None /\ outcome[j][1] = MinusInf } }

\* C11: a combination whose median PnL is the sentinel minus infinity is
\* the winner of neither leaderboard, whatever the other results are
C11_NoTradeNeverWins ==
  /\ best_median_params \notin NoTradeCombos
  /\ best_equity_params \notin NoTradeCombos

\* C12: a run over one bar or more that recorded no trade ends with the worker returning its
\* triple, median PnL minus infinity and the last equity value; nothing
\* raises after the bar loop
C12_NoTradeReturns ==
  (df # << >> /\ trades = << >> /\ pc \notin { "loop", "returned" })
    => /\ pc = "combo_returned"
       /\ ComboResult = << MinusInf, Num(equity[Len(equity)]) >>

\* C13: the sweep of a grid of exactly one combination whose worker
\* returned ends with that combination as the winner of both leaderboards,
\* whatever the worker returned (also the median of no realized trade)
C13_SingleComboWins ==
  (Len(param_combos) = 1 /\ futures[1] = "done"
     /\ mpc \in { "done", "crashed" })
    => /\ mpc = "done"
       /\ best_median_params = param_combos[1]
       /\ best_equity_params = param_combos[1]

\* the combinations whose triples were collected
Ranked == { results[j][1] : j \in 1 .. Len(results) }

\* C14: collecting a failed worker does not end the sweep: the failed
\* combination is left out and the leaderboards are computed from the
\* triples of all the combinations that returned
C14_FailureExcluded ==
  /\ [][ \A k \in yielded' \ yielded :
           futures[k] = "raised" => mpc' # "crashed" ]_vars
  /\ [](mpc = "done"
          => Ranked = { param_combos[k] :
                          k \in { j \in Combos : futures[j] = "done" } })

\* no leaderboard variable has been assigned by the ranking loop
LeaderboardsUntouched ==
  /\ best_median = None /\ best_median_params = None
  /\ best_equity = None /\ best_equity_params = None
  /\ best_median_val = MinusInf /\ best_equity_val = MinusInf

\* results holds exactly one triple per combination of the grid, the one
\* its worker returned
OneTriplePerCombo ==
  /\ Len(results) = Len(param_combos)
  /\ \A k \in Combos :
       \E j \in 1 .. Len(results) :
          /\ results[j] = << param_combos[k], outcome[k][1], outcome[k][2] >>
          /\ \A h \in 1 .. Len(results) :
               results[h][1] = param_combos[k] => h = j

\* C15: scatter/gather: every combination of the grid is submitted, and
\* once only; no leaderboard value is assigned before every submitted
\* combination has reported; the ranking reads one triple per combination,
\* each once
C15_ScatterGather ==
  /\ [](mpc # "start" => \A k \in Combos : futures[k] # "none")
  /\ [][ \A k \in Combos :
           futures'[k] # futures[k]
             => /\ futures[k] \in { "none", "running" }
                /\ futures[k] = "none" <=> futures'[k] = "running" ]_vars
  /\ [](~LeaderboardsUntouched \/ rank_pos > 1
          => yielded = Combos /\ OneTriplePerCombo)
  /\ [](mpc \in { "rank", "done" } => OneTriplePerCombo)
  /\ [][ rank_pos' # rank_pos
           => rank_pos' = rank_pos + 1 /\ rank_pos <= Len(results) ]_vars
  /\ [](mpc = "done" => rank_pos = Len(results) + 1)

\* a grid of MaxCombos combinations was ranked to the end from results
\* collected in another order than the grid's
C15_Witness ==
  /\ mpc = "done"
  /\ Len(param_combos) = MaxCombos
  /\ results[1][1] # param_combos[1]

\* the largest value of a metric (1: median PnL, 2: final equity) among
\* what the workers returned
MaxOutcome(c) ==
  CHOOSE v \in { outcome[k][c] : k \in Combos } :
    \A k \in Combos : ~Gt(outcome[k][c], v)

\* C19: a sweep whose workers all returned ends with, on each leaderboard,
\* one winning combination whose value is the largest value of that metric
\* among the workers' results (whatever the order of completion); each
\* leaderboard is decided by its own metric alone
C19_WinnersAreMaxima ==
  (mpc \in { "done", "crashed" } /\ \A k \in Combos : futures[k] = "done")
    => /\ mpc = "done"
       /\ best_median = MaxOutcome(1)
       /\ \E k \in Combos : /\ best_median_params = param_combos[k]
                             /\ outcome[k][1] = MaxOutcome(1)
       /\ best_equity = MaxOutcome(2)
       /\ \E k \in Combos : /\ best_equity_params = param_combos[k]
                             /\ outcome[k][2] = MaxOutcome(2)

\* C16: flat scenario: the run on 10 bars of constant close returns with
\* an empty trade ledger and an equity series that is the initial cash at
\* every bar
C16_FlatScenario ==
  (df \in FlatScenarios /\ pc # "loop")
    => /\ pc \in { "returned", "combo_returned" }
       /\ trades = << >>
       /\ Len(equity) = Len(df)
       /\ \A k \in 1 .. Len(equity) : equity[k] = RInt(InitialCash)

\* what trendline_from_extrema may return at bar k for a candidate's
\* extrema: one info per line the fitter may return at that bar
FittedInfos(prices, extrema_idx, k) ==
  { trendline_from_extrema(prices, extrema_idx, fit) :
      fit \in FitOutcomes(prices, extrema_idx, k) }

\* C17: at a bar where exactly one candidate qualifies the active trend
\* after the bar is that candidate's (uptrend for the support candidate,
\* downtrend for the resistance candidate) and the active model is one
\* fitted at that bar to that candidate's extrema, whatever was held
C17_SingleCandidateSwitch ==
  bar # << >> =>
    LET ext == Extrema(df, LastBar.i, params)
    IN  /\ (LastBar.uptrend /\ ~LastBar.downtrend)
             => /\ active_trend = "uptrend"
                /\ active_trend_info \in FittedInfos(df, ext[1], LastBar.i)
                /\ active_trend_info.slope > 0
        /\ (LastBar.downtrend /\ ~LastBar.uptrend)
             => /\ active_trend = "downtrend"
                /\ active_trend_info \in FittedInfos(df, ext[2], LastBar.i)
                /\ active_trend_info.slope < 0

\* only the resistance candidate qualified at the last bar while an
\* uptrend was held: the trend and the model were replaced
C17_Witness ==
  /\ bar # << >>
  /\ LastBar.downtrend /\ ~LastBar.uptrend
  /\ Before.active_trend = "uptrend"
  /\ active_trend = "downtrend"
  /\ active_trend_info # Before.active_trend_info

\* C18: a bar appends (bar, new trend) to the trend-switch log exactly if
\* the active trend after the bar differs from the one before it; nothing
\* else changes the log, and its entries are in bar order
C18_SwitchLogged ==
  /\ [][ IF i' = i + 1 /\ active_trend' # active_trend
         THEN trend_switches' = Append(trend_switches, << i, active_trend' >>)
         ELSE trend_switches' = trend_switches ]_vars
  /\ [](\A k \in 1 .. Len(trend_switches) - 1 :
          trend_switches[k][1] < trend_switches[k + 1][1])

\* two switches were logged, with a bar between them that held the trend
\* and logged nothing
C18_Witness ==
  /\ Len(trend_switches) = 2
  /\ trend_switches[2][1] > trend_switches[1][1] + 1

\* the info of a candidate with fewer than 2 extrema (no fit enters it)
FewPointsInfo(extrema_idx) ==
  CandidateInfo(df, extrema_idx, params, [m |-> 0, b |-> 0])

\* C20: the fitter's error for fewer than 2 points never leaves the
\* simulator: nothing raises inside the bar loop, and at every bar a
\* candidate with fewer than 2 extrema has no model and slope 0 and does
\* not qualify, also with min_points_for_trend 0 or 1
C20_FewPointsNoModel ==
  /\ pc = "raised" => i = Len(df)
  /\ bar # << >> =>
       LET ext == Extrema(df, LastBar.i, params)
       IN  /\ Len(equity) = LastBar.i + 1 /\ i = LastBar.i + 1
           /\ Len(ext[1]) < 2
                => /\ FewPointsInfo(ext[1]).model = NaN
                   /\ FewPointsInfo(ext[1]).slope = 0
                   /\ ~LastBar.uptrend
           /\ Len(ext[2]) < 2
                => /\ FewPointsInfo(ext[2]).model = NaN
                   /\ FewPointsInfo(ext[2]).slope = 0
                   /\ ~LastBar.downtrend

\* with min_points_for_trend = 1 the support candidate of the last bar
\* had its single trough handed to trendline_from_extrema, the resistance
\* candidate had no peak, and the loop goes on
C20_Witness ==
  /\ bar # << >>
  /\ params.min_points_for_trend = 1
  /\ Len(Extrema(df, LastBar.i, params)[1]) = 1
  /\ Len(Extrema(df, LastBar.i, params)[2]) = 0
  /\ FewPointsInfo(Extrema(df, LastBar.i, params)[1]).intercept
       = << At(df, Extrema(df, LastBar.i, params)[1][1]) >>
  /\ pc = "loop"

\* C21: on an empty bar sequence the simulator's first step raises: it
\* never returns, and no equity point, ledger entry, trend switch or trend
\* state was produced
C21_EmptyInputFails ==
  /\ [](df = << >>
          => /\ pc \in { "loop", "raised" }
             /\ i = 0 /\ bar = << >>
             /\ equity = << >> /\ trades = << >> /\ trend_switches = << >>
             /\ active_trend = "None"
             /\ active_trend_info = NoTrendInfo(<< >>))
  /\ [][ (df = << >> /\ pc' # pc) => (pc = "loop" /\ pc' = "raised") ]_vars

\* the run on the empty bar sequence has raised
C21_Witness ==
  df = << >> /\ pc = "raised" /\ equity = << >>

\* the ledger entry that opened the position held
OpenEntry == trades[Len(trades)]

\* C22: whenever the position is long or short, entry_price is the close
\* of the bar that opened it (the bar of the last ledger entry, an opening
\* one) and is not 0, so the PnL and the mark-to-market ratio of the bar
\* did not divide by 0
C22_EntryPriceSet ==
  (pc = "loop" /\ position # 0)
    => /\ trades # << >>
       /\ OpenEntry.type = (IF position = 1 THEN "buy" ELSE "sell_short")
       /\ entry_price = At(df, OpenEntry.date)
       /\ entry_price = OpenEntry.price
       /\ entry_price # 0
       /\ LastBar.cur_price # 0
       /\ equity[Len(equity)][2] # 0

\* a short is held two bars or more after the bar that opened it
C22_Witness ==
  /\ pc = "loop" /\ position = -1
  /\ i > OpenEntry.date + 2
  /\ entry_price = At(df, OpenEntry.date)

\* C23: reproducibility: two runs on the same bar sequence with the same
\* parameters (the code takes no seed) have the same trend-switch ledger,
\* trade ledger and equity series
C23_Reproducible ==
  dfB = df
    => /\ runB.trend_switches = trend_switches
       /\ runB.trades = trades
       /\ runB.equity = equity

IndexSet(seq) == { seq[k] : k \in 1 .. Len(seq) }

StrictlyIncreasing(seq) ==
  \A k \in 1 .. Len(seq) - 1 : seq[k] < seq[k + 1]

\* C24: the trough indices and the peak indices returned by the extrema
\* detector are each strictly increasing positions of the window, and no
\* index is both a trough and a peak
C24_ExtremaSortedDisjoint ==
  detected # None
    => /\ StrictlyIncreasing(detected[1])
       /\ StrictlyIncreasing(detected[2])
       /\ IndexSet(detected[1]) \cap IndexSet(detected[2]) = {}
       /\ IndexSet(detected[1]) \cup IndexSet(detected[2])
            \subseteq 0 .. Len(sub_prices) - 1

C24_Witness ==
  /\ detected # None
  /\ Len(detected[1]) = 2 /\ Len(detected[2]) = 1
  /\ det_order = 2 /\ det_prominence = 1

\* C25: the extrema detector returns no trough and no peak for a window
\* shorter than 2*order+1 bars
C25_ShortWindowEmpty ==
  (detected # None /\ Len(sub_prices) < 2 * det_order + 1)
    => detected = << << >>, << >> >>

\* C26: a long is closed only on a bar whose active trend is the uptrend
\* (the line is its support), a short only on a bar whose active trend is
\* the downtrend (the line is its resistance)
C26_ExitAgainstOwnTrend ==
  (bar # << >> /\ Before.position # 0 /\ position = 0)
    => active_trend = (IF Before.position = 1 THEN "uptrend" ELSE "downtrend")

ActiveModelConsistent ==
  /\ active_trend = "uptrend"
       => /\ active_trend_info.model # NaN
          /\ active_trend_info.slope > 0
          /\ active_trend_info.model[1] = active_trend_info.slope
          /\ Len(active_trend_info.used_points) >= params.min_points_for_trend
  /\ active_trend = "downtrend"
       => /\ active_trend_info.model # NaN
          /\ active_trend_info.slope < 0
          /\ active_trend_info.model[1] = active_trend_info.slope
          /\ Len(active_trend_info.used_points) >= params.min_points_for_trend
  /\ (active_trend_info.model = NaN) <=> (active_trend = "None")

\* C27: the active trend and the active model are consistent at every bar:
\* an uptrend holds a model of slope > 0 fitted through at least
\* min_points_for_trend troughs, a downtrend a model of slope < 0 fitted
\* through at least min_points_for_trend peaks, and there is no model
\* exactly when there is no trend; a model put in place by a bar is fitted
\* through the troughs (uptrend) or peaks (downtrend) of that bar's window
C27_StateModelConsistent ==
  /\ [](ActiveModelConsistent)
  /\ [][ (active_trend_info' # active_trend_info /\ active_trend' # "None")
          => active_trend_info'.used_points
               = Extrema(df, i, params)[IF active_trend' = "uptrend"
                                        THEN 1 ELSE 2] ]_vars

C27_Witness ==
  /\ bar # << >>
  /\ active_trend = "downtrend" /\ ~LastBar.downtrend
  /\ active_trend_info.slope < 0
  /\ Len(active_trend_info.used_points) >= params.min_points_for_trend

\* the cash held when the open position was entered: the equity of the
\* bar before the entry bar
PreEntryCash ==
  IF OpenEntry.date = 0 THEN RInt(InitialCash) ELSE equity[OpenEntry.date]

\* C28: while a long is held, from its entry bar on, the equity of each bar
\* is the cash held before the entry times close / entry_price, and the
\* equity of the entry bar is that cash
C28_LongEquityTracksPrice ==
  (bar # << >> /\ position = 1)
    => /\ OpenEntry.type = "buy"
       /\ equity[Len(equity)]
            = RMul(PreEntryCash, Rat(LastBar.cur_price, entry_price))
       /\ equity[OpenEntry.date + 1] = PreEntryCash

C28_Witness ==
  /\ bar # << >>
  /\ position = 1 /\ Before.position = 1
  /\ LastBar.cur_price # entry_price
  /\ equity[Len(equity)] # PreEntryCash

\* C29: on the bar a position closes, the cash returned, which is the
\* bar's equity, is the mark-to-market value of the position at that close
C29_CloseAtMarkedValue ==
  (bar # << >> /\ Before.position # 0 /\ position = 0)
    => /\ equity[Len(equity)] = cash
       /\ cash = MarkToMarket(Before, LastBar.cur_price)

\* C30: a bar appends at most one entry to the trade ledger, and the dates
\* of the ledger are strictly increasing
C30_OneEntryPerBar ==
  /\ [](\A k \in 1 .. Len(trades) - 1 : trades[k].date < trades[k + 1].date)
  /\ [][ Len(trades') <= Len(trades) + 1 ]_vars

C30_Witness ==
  /\ Len(trades) = 3
  /\ trades[2].type = "exit_short"
  /\ trades[3].date = trades[2].date + 1

\* the number of opening entries of a ledger
Opens(ledger) == Len(SelectSeq(ledger, LAMBDA e : e.type \in OpenTypes))

CloseOf(type) == IF type = "buy" THEN "exit_long" ELSE "exit_short"

\* C31: the trade ledger is well-formed: its entries alternate open,
\* close, open, ... starting with an open, every close is the exit of the
\* open right before it (exit_long after buy, exit_short after
\* sell_short), and opens minus closes is 1 while a position is held and 0
\* while flat
C31_LedgerWellFormed ==
  /\ \A k \in 1 .. Len(trades) :
       IF k % 2 = 1 THEN trades[k].type \in OpenTypes
       ELSE trades[k].type = CloseOf(trades[k - 1].type)
  /\ Opens(trades) - (Len(trades) - Opens(trades))
       = (IF position # 0 THEN 1 ELSE 0)

\* a long was closed and a long is held again
C31_Witness ==
  /\ Len(trades) = 3
  /\ trades[2].type = "exit_long"
  /\ position = 1

\* C32: after every bar, a flat account has notional 0 and entry price 0,
\* and an account holding a long or a short has cash 0
C32_FlatOrCommitted ==
  /\ position = 0 => (position_size = Zero /\ entry_price = 0)
  /\ position # 0 => cash = Zero

\* flat again after a short, held with no cash beside it, was closed and
\* returned cash
C32_Witness ==
  /\ bar # << >>
  /\ Before.position = -1 /\ position = 0
  /\ RLt(Zero, cash)
  /\ Before.cash = Zero /\ Before.entry_price # 0

\* C33: the trend-switch log holds no "no trend" entry, and two
\* consecutive entries never carry the same trend: the log alternates
\* between uptrend and downtrend
C33_SwitchLogAlternates ==
  /\ \A k \in 1 .. Len(trend_switches) :
       trend_switches[k][2] \in { "uptrend", "downtrend" }
  /\ \A k \in 1 .. Len(trend_switches) - 1 :
       trend_switches[k][2] # trend_switches[k + 1][2]

\* an uptrend was logged, then a downtrend, and the downtrend is held
C33_Witness ==
  /\ Len(trend_switches) = 2
  /\ trend_switches[1][2] = "uptrend"
  /\ trend_switches[2][2] = "downtrend"
  /\ active_trend = "downtrend"

\* C34: while no trend has been established there is no trend, no model,
\* no position and no ledger entry; the first ledger entry is not dated
\* before the first entry of the trend-switch log, and the equity of every
\* bar before that first switch is the initial cash
C34_NoTradeBeforeTrend ==
  /\ trend_switches = << >>
       => /\ active_trend = "None"
          /\ active_trend_info.model = NaN
          /\ position = 0
          /\ trades = << >>
          /\ \A k \in 1 .. Len(equity) : equity[k] = RInt(InitialCash)
  /\ trend_switches # << >>
       => /\ trades # << >> => trades[1].date >= trend_switches[1][1]
          /\ \A k \in 1 .. Min(Len(equity), trend_switches[1][1]) :
               equity[k] = RInt(InitialCash)

\* the first position was opened on a bar after the one that established
\* the first trend
C34_Witness ==
  /\ trades # << >>
  /\ trend_switches # << >>
  /\ trades[1].date > trend_switches[1][1]
  /\ trend_switches[1][1] > 0

\* C35: a bar that appends no ledger entry leaves cash, position, entry
\* price and notional as they were, whatever happens to the trend and its
\* model on that bar; the equity of a bar that begins and ends flat is the
\* equity of the bar before it
C35_NoTradeNoChange ==
  /\ [][ (i' = i + 1 /\ trades' = trades)
          => /\ cash' = cash
             /\ position' = position
             /\ entry_price' = entry_price
             /\ position_size' = position_size ]_vars
  /\ []((bar # << >> /\ Before.position = 0 /\ position = 0
            /\ Len(equity) >= 2)
          => equity[Len(equity)] = equity[Len(equity) - 1])

\* a position was held over a bar that replaced the model of the trend and
\* appended nothing to the ledger
C35_Witness ==
  /\ bar # << >>
  /\ trades = Before.trades
  /\ position # 0
  /\ active_trend_info # Before.active_trend_info
  /\ entry_price = Before.entry_price /\ entry_price # LastBar.cur_price

====
